---- MODULE Spec2Model ----
(***************************************************************************)
(* Graphe<T> of Lab5 (src/Lab5/Graphe/src/main/Graphe.hpp): a directed     *)
(* graph with a fixed number of vertices, one label per vertex and one     *)
(* adjacency list (std::list<unsigned int>) per vertex.                    *)
(*                                                                         *)
(* A std::vector is a sequence; vertex i lives at index i + 1.  Every      *)
(* public method is one action.  The record `dernier` is the observation   *)
(* of the last call: its name, its arguments and how it ended.             *)
(*                                                                         *)
(* The contract macros (PRECONDITION, POSTCONDITION, INVARIANTS) come from *)
(* ContratException.h; they throw when contracts are compiled in and are   *)
(* empty when NDEBUG is defined.  The build is chosen once, in Init.       *)
(***************************************************************************)
EXTENDS Integers, Sequences, FiniteSets, TLC

\* Bounds of the model.
MaxSommets == 2
MaxArcs == 2

\* The values of the generic label type T: T() and one other value.
NomDefaut == ""
Noms == {NomDefaut, "x"}

VARIABLES
    p_nbSommets,   \* the constructor's argument (kept for reference)
    NDEBUG,        \* TRUE: the contract macros are compiled out
    m_nbSommets,   \* Graphe::m_nbSommets
    m_noms,        \* Graphe::m_noms, std::vector<T>
    m_listesAdj,   \* Graphe::m_listesAdj, std::vector<std::list<unsigned int>>
    ordreAjout,    \* observer: per source, the targets of the arcs that exist, by time of creation
    dernier        \* observer: the last call and its outcome

vars == <<p_nbSommets, NDEBUG, m_nbSommets, m_noms, m_listesAdj, ordreAjout, dernier>>

----------------------------------------------------------------------------
\* Outcomes of a call.

Rien == <<>>

\* What went wrong, after the messages of the exceptions in the code.
SommetInvalide == "numero de sommet invalide"
ArcExistant == "l'arc existe deja"
ArcInexistant == "l'arc est inexistant"
PostViolee == "postcondition"
InvariantViole == "invariant"

Ok(res) == [issue |-> "ok", exception |-> "", erreur |-> "", res |-> res]

Echec(exception, erreur) ==
    [issue |-> "echec", exception |-> exception, erreur |-> erreur, res |-> Rien]

\* The process died (undefined behaviour that ended in a fault).
Plante == [issue |-> "plante", exception |-> "", erreur |-> "", res |-> Rien]

Appel(op, a, b, nom, r) ==
    [op |-> op, a |-> a, b |-> b, nom |-> nom,
     issue |-> r.issue, exception |-> r.exception, erreur |-> r.erreur, res |-> r.res]

----------------------------------------------------------------------------
\* Containers.

\* Mutant of Resize: one element too many.
ResizeUnDePlus(n, defaut) == [i \in 1..(n + 1) |-> defaut]

\* std::vector::resize(n) on an empty vector: n value-initialised elements.
Resize(n, defaut) == [i \in 1..n |-> defaut]

\* vec[i] for a std::vector, i in range.
At(vec, i) == vec[i + 1]

\* Mutant of Affecte: the index is ignored and the first element is written.
AffectePremier(vec, i, x) == [vec EXCEPT ![1] = x]

\* vec[i] = x for a std::vector, i in range.
Affecte(vec, i, x) == [vec EXCEPT ![i + 1] = x]

\* Mutant of PushBack: push_front.
PushFront(liste, x) == <<x>> \o liste

\* std::list::push_back.
PushBack(liste, x) == Append(liste, x)

\* std::find(liste.begin(), liste.end(), x): the position of the first element
\* equal to x, Len(liste) + 1 (end()) when there is none.
RECURSIVE FindFrom(_, _, _)
FindFrom(liste, x, i) ==
    IF i > Len(liste) THEN i
    ELSE IF liste[i] = x THEN i
    ELSE FindFrom(liste, x, i + 1)

\* Mutant of Find: the search starts after the first element.
FindApresPremier(liste, x) == IF Len(liste) = 0 THEN 1 ELSE FindFrom(liste, x, 2)

Find(liste, x) == FindFrom(liste, x, 1)

End(liste) == Len(liste) + 1

\* Mutant of Erase: erase(it, end()), everything from `it` on goes.
EraseJusquaFin(liste, it) == SubSeq(liste, 1, it - 1)

\* Mutant of Erase: pop_front, whatever `it` is.
EraseDebut(liste, it) == Tail(liste)

\* std::list::erase(it), it a valid position.
Erase(liste, it) ==
    [i \in 1..(Len(liste) - 1) |-> IF i < it THEN liste[i] ELSE liste[i + 1]]

----------------------------------------------------------------------------
\* Graphe<T>::verifieInvariant, the body of INVARIANTS().
verifieInvariant(noms, listes) ==
    /\ Len(noms) = m_nbSommets
    /\ Len(listes) = m_nbSommets

\* The contract macros throw only when they are compiled in.
Contrats == ~NDEBUG

\* Mutant of arcExiste: source and target are swapped in the search.
arcExisteInverse(listes, p_source, p_cible) ==
    IF Contrats /\ ~(p_source < m_nbSommets)
    THEN Echec("PreconditionException", SommetInvalide)
    ELSE IF Contrats /\ ~(p_cible < m_nbSommets)
    THEN Echec("PreconditionException", SommetInvalide)
    ELSE IF p_source >= m_nbSommets
    THEN Echec("logic_error", SommetInvalide)
    ELSE IF p_cible >= m_nbSommets
    THEN Echec("logic_error", SommetInvalide)
    ELSE LET liste == At(listes, p_cible)
             it == Find(liste, p_source)
         IN  Ok(it # End(liste))

\* Graphe<T>::arcExiste on the adjacency lists `listes`.
arcExiste(listes, p_source, p_cible) ==
    IF Contrats /\ ~(p_source < m_nbSommets)
    THEN Echec("PreconditionException", SommetInvalide)
    ELSE IF Contrats /\ ~(p_cible < m_nbSommets)
    THEN Echec("PreconditionException", SommetInvalide)
    ELSE IF p_source >= m_nbSommets
    THEN Echec("logic_error", SommetInvalide)
    ELSE IF p_cible >= m_nbSommets
    THEN Echec("logic_error", SommetInvalide)
    ELSE LET liste == At(listes, p_source)
             it == Find(liste, p_cible)
         IN  Ok(it # End(liste))

\* Graphe<T>::nommer: the labels after the call and its outcome.
nommer(p_sommet, p_nom) ==
    IF Contrats /\ ~(p_sommet < m_nbSommets)
    THEN [noms |-> m_noms, r |-> Echec("PreconditionException", SommetInvalide)]
    ELSE IF p_sommet >= m_nbSommets
    THEN [noms |-> m_noms, r |-> Echec("logic_error", SommetInvalide)]
    ELSE LET noms2 == Affecte(m_noms, p_sommet, p_nom)
         IN  [noms |-> noms2,
              r |-> IF Contrats /\ ~verifieInvariant(noms2, m_listesAdj)
                    THEN Echec("InvariantException", InvariantViole)
                    ELSE Ok(Rien)]

\* Graphe<T>::reqNom.
reqNom(noms, p_sommet) ==
    IF Contrats /\ ~(p_sommet < m_nbSommets)
    THEN Echec("PreconditionException", SommetInvalide)
    ELSE IF p_sommet >= m_nbSommets
    THEN Echec("logic_error", SommetInvalide)
    ELSE Ok(At(noms, p_sommet))

\* Graphe<T>::ajouterArc: the adjacency lists after the call and its outcome.
ajouterArc(p_source, p_cible) ==
    LET existe == arcExiste(m_listesAdj, p_source, p_cible)
        listes2 == Affecte(m_listesAdj, p_source,
                           PushBack(At(m_listesAdj, p_source), p_cible))
        apres == arcExiste(listes2, p_source, p_cible)
    IN  IF Contrats /\ ~(p_source < m_nbSommets)
        THEN [listes |-> m_listesAdj, r |-> Echec("PreconditionException", SommetInvalide)]
        ELSE IF Contrats /\ ~(p_cible < m_nbSommets)
        THEN [listes |-> m_listesAdj, r |-> Echec("PreconditionException", SommetInvalide)]
        ELSE IF Contrats /\ existe.issue = "echec"
        THEN [listes |-> m_listesAdj, r |-> existe]
        ELSE IF Contrats /\ existe.res
        THEN [listes |-> m_listesAdj, r |-> Echec("PreconditionException", ArcExistant)]
        ELSE IF p_source >= m_nbSommets
        THEN [listes |-> m_listesAdj, r |-> Echec("logic_error", SommetInvalide)]
        ELSE IF p_cible >= m_nbSommets
        THEN [listes |-> m_listesAdj, r |-> Echec("logic_error", SommetInvalide)]
        ELSE IF existe.issue = "echec"
        THEN [listes |-> m_listesAdj, r |-> existe]
        ELSE IF existe.res
        THEN [listes |-> m_listesAdj, r |-> Echec("logic_error", ArcExistant)]
        ELSE [listes |-> listes2,
              r |-> IF Contrats /\ apres.issue = "echec" THEN apres
                    ELSE IF Contrats /\ ~apres.res
                    THEN Echec("PostconditionException", PostViolee)
                    ELSE IF Contrats /\ ~verifieInvariant(m_noms, listes2)
                    THEN Echec("InvariantException", InvariantViole)
                    ELSE Ok(Rien)]

\* m_listesAdj[p_source] with p_source out of range (line 119) is undefined
\* behaviour: the reference designates memory past the vector's storage.  The
\* search in it may find nothing (the throw of line 124), fault, or find and
\* erase a node of that foreign memory and return; the graph's own containers
\* are not the memory written.
enleverArcHorsBornes ==
    { [listes |-> m_listesAdj, r |-> Echec("logic_error", ArcInexistant)],
      [listes |-> m_listesAdj, r |-> Plante],
      [listes |-> m_listesAdj, r |-> Ok(Rien)] }

\* Graphe<T>::enleverArc: the possible (adjacency lists, outcome) after the call.
enleverArc(p_source, p_cible) ==
    LET existe == arcExiste(m_listesAdj, p_source, p_cible)
    IN  IF Contrats /\ existe.issue = "echec"
        THEN {[listes |-> m_listesAdj, r |-> existe]}
        ELSE IF Contrats /\ ~existe.res
        THEN {[listes |-> m_listesAdj, r |-> Echec("PreconditionException", ArcInexistant)]}
        ELSE IF p_source >= m_nbSommets
        THEN enleverArcHorsBornes
        ELSE LET liste == At(m_listesAdj, p_source)
                 it == Find(liste, p_cible)
                 listes2 == Affecte(m_listesAdj, p_source, Erase(liste, it))
                 apres == arcExiste(listes2, p_source, p_cible)
             IN  IF it = End(liste)
                 THEN {[listes |-> m_listesAdj, r |-> Echec("logic_error", ArcInexistant)]}
                 ELSE {[listes |-> listes2,
                        r |-> IF Contrats /\ apres.issue = "echec" THEN apres
                              ELSE IF Contrats /\ apres.res
                              THEN Echec("PostconditionException", PostViolee)
                              ELSE IF Contrats /\ ~verifieInvariant(m_noms, listes2)
                              THEN Echec("InvariantException", InvariantViole)
                              ELSE Ok(Rien)]}

\* Graphe<T>::reqNbSommets.
reqNbSommets == Ok(m_nbSommets)

\* The loop of lines 250-253: the elements of the list pushed one by one on a vector.
RECURSIVE CopieDepuis(_, _, _)
CopieDepuis(liste, i, v) ==
    IF i > Len(liste) THEN v ELSE CopieDepuis(liste, i + 1, Append(v, liste[i]))

\* Graphe<T>::listerSommetsAdjacents.
listerSommetsAdjacents(p_sommet) ==
    IF Contrats /\ ~(p_sommet < m_nbSommets)
    THEN Echec("PreconditionException", SommetInvalide)
    ELSE IF p_sommet >= m_nbSommets
    THEN Echec("logic_error", SommetInvalide)
    ELSE Ok(CopieDepuis(At(m_listesAdj, p_sommet), 1, <<>>))

\* The inner loop of lines 283-287: the elements of one list equal to p_sommet.
RECURSIVE CompteListe(_, _, _)
CompteListe(liste, p_sommet, j) ==
    IF j > Len(liste) THEN 0
    ELSE (IF liste[j] = p_sommet THEN 1 ELSE 0) + CompteListe(liste, p_sommet, j + 1)

\* The outer loop of lines 282-288, from vertex i on.
RECURSIVE CompteDepuis(_, _, _)
CompteDepuis(listes, p_sommet, i) ==
    IF i >= m_nbSommets THEN 0
    ELSE CompteListe(At(listes, i), p_sommet, 1) + CompteDepuis(listes, p_sommet, i + 1)

\* Mutant of ordreEntreeSommet: the outer loop starts at vertex 1.
ordreEntreeSansPremier(p_sommet) ==
    IF Contrats /\ ~(p_sommet < m_nbSommets)
    THEN Echec("PreconditionException", SommetInvalide)
    ELSE IF p_sommet >= m_nbSommets
    THEN Echec("logic_error", SommetInvalide)
    ELSE Ok(CompteDepuis(m_listesAdj, p_sommet, 1))

\* Graphe<T>::ordreEntreeSommet.
ordreEntreeSommet(p_sommet) ==
    IF Contrats /\ ~(p_sommet < m_nbSommets)
    THEN Echec("PreconditionException", SommetInvalide)
    ELSE IF p_sommet >= m_nbSommets
    THEN Echec("logic_error", SommetInvalide)
    ELSE Ok(CompteDepuis(m_listesAdj, p_sommet, 0))

\* Graphe<T>::ordreSortieSommet.
ordreSortieSommet(p_sommet) ==
    IF Contrats /\ ~(p_sommet < m_nbSommets)
    THEN Echec("PreconditionException", SommetInvalide)
    ELSE IF p_sommet >= m_nbSommets
    THEN Echec("logic_error", SommetInvalide)
    ELSE Ok(Len(At(m_listesAdj, p_sommet)))

\* The values a call that flows off the end of parcoursProfondeur may hand
\* back: some vector of vertex numbers (here the empty one and those of one element).
RetoursIndefinis ==
    {<<>>} \cup {<<x>> : x \in 0..(m_nbSommets - 1)}

\* Graphe<T>::parcoursProfondeur: the body is empty.  No argument is checked and
\* control flows off the end of a function that returns a value, which is
\* undefined behaviour: the call faults or returns some vector.
parcoursProfondeur(p_debut) == {Plante} \cup {Ok(v) : v \in RetoursIndefinis}

----------------------------------------------------------------------------
\* The state machine.

\* The vertex numbers a caller passes: every valid one and the first invalid one.
Arguments == 0..m_nbSommets

\* The number of arcs of the graph.
RECURSIVE NbArcsDepuis(_, _)
NbArcsDepuis(listes, i) ==
    IF i > Len(listes) THEN 0 ELSE Len(listes[i]) + NbArcsDepuis(listes, i + 1)

NbArcs(listes) == NbArcsDepuis(listes, 1)

\* Graphe<T>::Graphe(p_nbSommets), in either build.
Init ==
    /\ p_nbSommets \in 0..MaxSommets
    /\ NDEBUG \in BOOLEAN
    /\ m_nbSommets = p_nbSommets
    /\ m_noms = Resize(m_nbSommets, NomDefaut)
    /\ m_listesAdj = Resize(m_nbSommets, <<>>)
    /\ ordreAjout = [i \in 1..p_nbSommets |-> <<>>]
    /\ dernier = Appel("Graphe", p_nbSommets, Rien, Rien, Ok(Rien))

\* A process that faulted makes no further call.
EnVie == dernier.issue # "plante"

Nommer ==
    \E p_sommet \in Arguments, p_nom \in Noms :
        LET e == nommer(p_sommet, p_nom)
        IN  /\ EnVie
            /\ m_noms' = e.noms
            /\ dernier' = Appel("nommer", p_sommet, Rien, p_nom, e.r)
            /\ UNCHANGED <<p_nbSommets, NDEBUG, m_nbSommets, m_listesAdj, ordreAjout>>

AjouterArc ==
    \E p_source \in Arguments, p_cible \in Arguments :
        LET e == ajouterArc(p_source, p_cible)
        IN  /\ EnVie
            /\ NbArcs(e.listes) <= MaxArcs
            /\ m_listesAdj' = e.listes
            /\ ordreAjout' = IF e.r.issue = "ok"
                             THEN [ordreAjout EXCEPT ![p_source + 1] = Append(@, p_cible)]
                             ELSE ordreAjout
            /\ dernier' = Appel("ajouterArc", p_source, p_cible, Rien, e.r)
            /\ UNCHANGED <<p_nbSommets, NDEBUG, m_nbSommets, m_noms>>

EnleverArc ==
    \E p_source \in Arguments, p_cible \in Arguments :
        \E e \in enleverArc(p_source, p_cible) :
            /\ EnVie
            /\ m_listesAdj' = e.listes
            /\ ordreAjout' = IF e.r.issue = "ok" /\ p_source < p_nbSommets
                             THEN [ordreAjout EXCEPT ![p_source + 1] =
                                       SelectSeq(@, LAMBDA x : x # p_cible)]
                             ELSE ordreAjout
            /\ dernier' = Appel("enleverArc", p_source, p_cible, Rien, e.r)
            /\ UNCHANGED <<p_nbSommets, NDEBUG, m_nbSommets, m_noms>>

ReqNom ==
    \E p_sommet \in Arguments :
        /\ EnVie
        /\ dernier' = Appel("reqNom", p_sommet, Rien, Rien, reqNom(m_noms, p_sommet))
        /\ UNCHANGED <<p_nbSommets, NDEBUG, m_nbSommets, m_noms, m_listesAdj, ordreAjout>>

ArcExiste ==
    \E p_source \in Arguments, p_cible \in Arguments :
        /\ EnVie
        /\ dernier' = Appel("arcExiste", p_source, p_cible, Rien,
                            arcExiste(m_listesAdj, p_source, p_cible))
        /\ UNCHANGED <<p_nbSommets, NDEBUG, m_nbSommets, m_noms, m_listesAdj, ordreAjout>>

ReqNbSommets ==
    /\ EnVie
    /\ dernier' = Appel("reqNbSommets", Rien, Rien, Rien, reqNbSommets)
    /\ UNCHANGED <<p_nbSommets, NDEBUG, m_nbSommets, m_noms, m_listesAdj, ordreAjout>>

ListerSommetsAdjacents ==
    \E p_sommet \in Arguments :
        /\ EnVie
        /\ dernier' = Appel("listerSommetsAdjacents", p_sommet, Rien, Rien,
                            listerSommetsAdjacents(p_sommet))
        /\ UNCHANGED <<p_nbSommets, NDEBUG, m_nbSommets, m_noms, m_listesAdj, ordreAjout>>

OrdreEntreeSommet ==
    \E p_sommet \in Arguments :
        /\ EnVie
        /\ dernier' = Appel("ordreEntreeSommet", p_sommet, Rien, Rien,
                            ordreEntreeSommet(p_sommet))
        /\ UNCHANGED <<p_nbSommets, NDEBUG, m_nbSommets, m_noms, m_listesAdj, ordreAjout>>

OrdreSortieSommet ==
    \E p_sommet \in Arguments :
        /\ EnVie
        /\ dernier' = Appel("ordreSortieSommet", p_sommet, Rien, Rien,
                            ordreSortieSommet(p_sommet))
        /\ UNCHANGED <<p_nbSommets, NDEBUG, m_nbSommets, m_noms, m_listesAdj, ordreAjout>>

ParcoursProfondeur ==
    \E p_debut \in Arguments :
        \E r \in parcoursProfondeur(p_debut) :
            /\ EnVie
            /\ dernier' = Appel("parcoursProfondeur", p_debut, Rien, Rien, r)
            /\ UNCHANGED <<p_nbSommets, NDEBUG, m_nbSommets, m_noms, m_listesAdj, ordreAjout>>

Next ==
    \/ Nommer
    \/ AjouterArc
    \/ EnleverArc
    \/ ReqNom
    \/ ArcExiste
    \/ ReqNbSommets
    \/ ListerSommetsAdjacents
    \/ OrdreEntreeSommet
    \/ OrdreSortieSommet
    \/ ParcoursProfondeur

Spec == Init /\ [][Next]_vars

\* A caller that uses the arcs only: the labels keep their initial value.
NextArcs ==
    \/ AjouterArc
    \/ EnleverArc
    \/ ArcExiste
    \/ ReqNbSommets
    \/ ListerSommetsAdjacents
    \/ OrdreEntreeSommet
    \/ OrdreSortieSommet
    \/ ParcoursProfondeur

SpecArcs == Init /\ [][NextArcs]_vars

\* A caller that names vertices and changes arcs, and asks only for labels and
\* for the number of vertices.
NextNoms ==
    \/ Nommer
    \/ ReqNom
    \/ AjouterArc
    \/ EnleverArc
    \/ ReqNbSommets

SpecNoms == Init /\ [][NextNoms]_vars

----------------------------------------------------------------------------
\* Vocabulary of the properties.

Valide(v) == v < m_nbSommets

\* There is an arc from a to b in the adjacency lists `listes` (a valid).
Contient(listes, a, b) == \E i \in 1..Len(At(listes, a)) : At(listes, a)[i] = b

\* The number of entries equal to b in a's list.
Occurrences(listes, a, b) ==
    Cardinality({i \in 1..Len(At(listes, a)) : At(listes, a)[i] = b})

\* The methods that take one vertex number, and those that take two.
UnSommet == {"nommer", "reqNom", "listerSommetsAdjacents",
             "ordreEntreeSommet", "ordreSortieSommet"}
DeuxSommets == {"ajouterArc", "enleverArc", "arcExiste"}

RECURSIVE SommeSur(_, _)
SommeSur(f, v) == IF v >= m_nbSommets THEN 0 ELSE f[v] + SommeSur(f, v + 1)

\* The vertices reachable from `debut` along arcs, `debut` included.
RECURSIVE Fermeture(_)
Fermeture(S) ==
    LET T == S \cup {b \in 0..(m_nbSommets - 1) :
                        \E a \in S : Contient(m_listesAdj, a, b)}
    IN  IF T = S THEN S ELSE Fermeture(T)

Accessibles(debut) == Fermeture({debut})

----------------------------------------------------------------------------
\* C1: after a successful ajouterArc(a, b), arcExiste(a, b) returns true; after
\* a successful enleverArc(a, b) on valid vertices, arcExiste(a, b) returns false.
C1_AjoutPuisRetrait ==
    LET e == arcExiste(m_listesAdj, dernier.a, dernier.b)
    IN  /\ (dernier.op = "ajouterArc" /\ dernier.issue = "ok")
               => (e.issue = "ok" /\ e.res)
        /\ (dernier.op = "enleverArc" /\ dernier.issue = "ok"
                /\ Valide(dernier.a) /\ Valide(dernier.b))
               => (e.issue = "ok" /\ ~e.res)

\* An arc was removed with success from a graph that still holds another arc.
C1_Temoin ==
    /\ dernier.op = "enleverArc"
    /\ dernier.issue = "ok"
    /\ Valide(dernier.a)
    /\ NbArcs(m_listesAdj) >= 1

\* C2: ajouterArc(source, cible) on valid vertices, called when the arc exists,
\* fails with "l'arc existe deja" and leaves every adjacency list as it was.
C2_AjoutDoublon ==
    [][(/\ dernier'.op = "ajouterArc"
        /\ Valide(dernier'.a) /\ Valide(dernier'.b)
        /\ Contient(m_listesAdj, dernier'.a, dernier'.b))
       => (/\ dernier'.issue = "echec"
           /\ dernier'.erreur = ArcExistant
           /\ m_listesAdj' = m_listesAdj)]_vars

\* A duplicate was refused.
C2_Temoin ==
    /\ dernier.op = "ajouterArc"
    /\ dernier.issue = "echec"
    /\ dernier.erreur = ArcExistant

\* C3: enleverArc(source, cible) on valid vertices fails with "l'arc est
\* inexistant" and changes no list when there is no such arc; when there is, the
\* one entry `cible` leaves source's list, the other entries of that list keep
\* their order and every other list is as it was.
C3_Retrait ==
    [][(/\ dernier'.op = "enleverArc"
        /\ Valide(dernier'.a) /\ Valide(dernier'.b))
       => IF Contient(m_listesAdj, dernier'.a, dernier'.b)
          THEN /\ dernier'.issue = "ok"
               /\ Len(At(m_listesAdj', dernier'.a)) = Len(At(m_listesAdj, dernier'.a)) - 1
               /\ At(m_listesAdj', dernier'.a) =
                      SelectSeq(At(m_listesAdj, dernier'.a), LAMBDA x : x # dernier'.b)
               /\ \A v \in 0..(m_nbSommets - 1) :
                      v # dernier'.a => At(m_listesAdj', v) = At(m_listesAdj, v)
          ELSE /\ dernier'.issue = "echec"
               /\ dernier'.erreur = ArcInexistant
               /\ m_listesAdj' = m_listesAdj]_vars

\* An arc was removed from a list that held another entry.
C3_Temoin ==
    /\ dernier.op = "enleverArc"
    /\ dernier.issue = "ok"
    /\ Valide(dernier.a)
    /\ Len(At(m_listesAdj, dernier.a)) >= 1

\* C4 (as stated): every method that takes a vertex number, given a number
\* >= m_nbSommets, fails and leaves labels and adjacency lists as they were.
C4_HorsBornes ==
    [][(\/ /\ dernier'.op \in UnSommet \cup DeuxSommets
           /\ ~Valide(dernier'.a)
        \/ /\ dernier'.op \in DeuxSommets
           /\ ~Valide(dernier'.b))
       => (/\ dernier'.issue = "echec"
           /\ m_noms' = m_noms
           /\ m_listesAdj' = m_listesAdj)]_vars

\* C5: the out-degrees of all vertices and their in-degrees have the same sum.
C5_SommeDegres ==
    SommeSur([v \in 0..(m_nbSommets - 1) |-> ordreSortieSommet(v).res], 0)
        = SommeSur([v \in 0..(m_nbSommets - 1) |-> ordreEntreeSommet(v).res], 0)

\* Two arcs exist, one of them a loop, and the last call failed.
C5_Temoin ==
    /\ NbArcs(m_listesAdj) = 2
    /\ \E v \in 0..(m_nbSommets - 1) : Contient(m_listesAdj, v, v)
    /\ dernier.op \in {"ajouterArc", "enleverArc"}
    /\ dernier.issue = "echec"

\* C6: no adjacency list holds the same target twice.
C6_SansDoublon ==
    \A a \in 0..(m_nbSommets - 1) : \A b \in 0..(m_nbSommets - 1) :
        Occurrences(m_listesAdj, a, b) <= 1

\* A duplicate was refused on a list of two entries, after a removal could have happened.
C6_Temoin ==
    /\ dernier.op = "ajouterArc"
    /\ dernier.erreur = ArcExistant
    /\ Len(At(m_listesAdj, dernier.a)) = 2

\* C7: reqNbSommets returns the constructor's argument, and m_noms and
\* m_listesAdj have exactly that many elements.
C7_Tailles ==
    /\ m_nbSommets = p_nbSommets
    /\ Len(m_noms) = p_nbSommets
    /\ Len(m_listesAdj) = p_nbSommets
    /\ dernier.op = "reqNbSommets" => (dernier.issue = "ok" /\ dernier.res = p_nbSommets)

\* reqNbSommets was called on a graph with a named vertex and an arc.
C7_Temoin ==
    /\ dernier.op = "reqNbSommets"
    /\ NbArcs(m_listesAdj) >= 1
    /\ \E v \in 0..(m_nbSommets - 1) : At(m_noms, v) # NomDefaut

\* C8: nommer(v, x) on a valid vertex succeeds, reqNom(v) then returns x, and the
\* labels of the other vertices and all adjacency lists are as they were.
C8_NommerPuisReqNom ==
    [][(dernier'.op = "nommer" /\ Valide(dernier'.a))
       => (/\ dernier'.issue = "ok"
           /\ reqNom(m_noms', dernier'.a) = Ok(dernier'.nom)
           /\ \A u \in 0..(m_nbSommets - 1) :
                  u # dernier'.a => At(m_noms', u) = At(m_noms, u)
           /\ m_listesAdj' = m_listesAdj)]_vars

\* A vertex was named back to T() while another one holds a label and an arc exists.
C8_Temoin ==
    /\ dernier.op = "nommer"
    /\ dernier.issue = "ok"
    /\ dernier.nom = NomDefaut
    /\ \E u \in 0..(m_nbSommets - 1) : u # dernier.a /\ At(m_noms, u) # NomDefaut
    /\ NbArcs(m_listesAdj) >= 1

\* C9 (as stated): parcoursProfondeur(debut) on a valid vertex returns a sequence
\* that starts with debut and holds each vertex reachable from debut once and no
\* other; on an invalid one it fails with "numero de sommet invalide".
C9_ParcoursProfondeur ==
    dernier.op = "parcoursProfondeur" =>
        IF Valide(dernier.a)
        THEN /\ dernier.issue = "ok"
             /\ Len(dernier.res) >= 1
             /\ dernier.res[1] = dernier.a
             /\ {dernier.res[i] : i \in 1..Len(dernier.res)} = Accessibles(dernier.a)
             /\ Len(dernier.res) = Cardinality(Accessibles(dernier.a))
        ELSE /\ dernier.issue = "echec"
             /\ dernier.erreur = SommetInvalide

\* C10: listerSommetsAdjacents(v) on a valid vertex returns the targets of the
\* arcs that leave v, ordered by the time of the ajouterArc that created each,
\* and changes nothing in the graph.
C10_OrdreInsertion ==
    [][(dernier'.op = "listerSommetsAdjacents" /\ Valide(dernier'.a))
       => (/\ dernier'.issue = "ok"
           /\ dernier'.res = At(ordreAjout, dernier'.a)
           /\ m_nbSommets' = m_nbSommets
           /\ m_noms' = m_noms
           /\ m_listesAdj' = m_listesAdj)]_vars

\* The list of a vertex with two outgoing arcs was returned, the older arc
\* having the larger target.
C10_Temoin ==
    /\ dernier.op = "listerSommetsAdjacents"
    /\ dernier.issue = "ok"
    /\ Len(dernier.res) = 2
    /\ dernier.res[1] > dernier.res[2]

====
